---------------------------- MODULE Spec2Model ----------------------------
(***************************************************************************)
(* A model of string32: String32 / Str32, strings indexed by u32.          *)
(*                                                                         *)
(* The repository holds two drafts of the same design: src/src/lib.rs (the *)
(* single-file draft, impl = "lib") and src/src/string32.rs with           *)
(* src/src/str32.rs (impl = "string32").  Both are modelled; the variable  *)
(* impl says which draft a behaviour runs.                                 *)
(*                                                                         *)
(* A native String is a record [bytes, cap]; a String32 (a Vec32<u8>) is   *)
(* the same record with both numbers in the u32 domain.  Strings are       *)
(* sequences of bytes, so that UTF-8 validity, character boundaries and    *)
(* lengths are computed from the bytes and never assumed.                  *)
(*                                                                         *)
(* u32::MAX is scaled down to U32_MAX so that the overflow cases are       *)
(* reachable; the native width (64-bit usize) is NATIVE_MAX, which is      *)
(* more than twice U32_MAX, as 2^63-1 is more than twice 2^32-1.           *)
(***************************************************************************)
EXTENDS Integers, Sequences, FiniteSets, TLC

\* Scaled stand-in for u32::MAX: the largest length / capacity of a String32.
U32_MAX == 5
\* How many bytes past U32_MAX the native inputs of the conversions go.
Beyond == 2
\* Largest argument of with_capacity that is tried.
MaxCap == 3
\* The call frames the stack has room for.
MaxFrames == 3
\* The UTF-16 inputs tried exhaustively have at most this many code units.
MaxUnits == 3

\* Scaled stand-in for isize::MAX, the largest native allocation.
NATIVE_MAX == 2 * U32_MAX + Beyond + 4

Max(a, b) == IF a >= b THEN a ELSE b
Min(a, b) == IF a <= b THEN a ELSE b

(***************************************************************************)
(* Characters are code points: 'a' = 97, 'A' = 65, '\n' = 10, U+1F642    *)
(* = 128578, whose encoding F0 9F 99 82 is four bytes long.                *)
(***************************************************************************)
\* Characters of the native inputs, and characters that are pushed/inserted.
InChars == {97, 10, 128578}
ArgChars == {97, 65, 128578}

(***************************************************************************)
(* UTF-8, as core::char::encode_utf8 and core::str::validations compute it.*)
(***************************************************************************)
\* char::len_utf8
LenUtf8(c) ==
    IF c < 128 THEN 1 ELSE IF c < 2048 THEN 2 ELSE IF c < 65536 THEN 3 ELSE 4

\* char::encode_utf8
EncodeUtf8(c) ==
    CASE LenUtf8(c) = 1 -> <<c>>
      [] LenUtf8(c) = 2 -> <<192 + (c \div 64), 128 + (c % 64)>>
      [] LenUtf8(c) = 3 -> <<224 + (c \div 4096), 128 + ((c \div 64) % 64),
                             128 + (c % 64)>>
      [] OTHER -> <<240 + (c \div 262144), 128 + ((c \div 4096) % 64),
                    128 + ((c \div 64) % 64), 128 + (c % 64)>>

\* u8::is_utf8_char_boundary: (b as i8) >= -0x40
IsUtf8CharBoundary(b) == b < 128 \/ b >= 192

IsCont(b) == b >= 128 /\ b <= 191

\* core::str::validations::utf8_char_width
Utf8CharWidth(b) ==
    IF b < 128 THEN 1
    ELSE IF b >= 194 /\ b <= 223 THEN 2
    ELSE IF b >= 224 /\ b <= 239 THEN 3
    ELSE IF b >= 240 /\ b <= 244 THEN 4
    ELSE 0

\* One step of run_utf8_validation: the bytes from position i (1-based)
\* start with a well-formed character of width w.
WellFormedAt(b, i, w) ==
    /\ w > 0
    /\ i + w - 1 <= Len(b)
    /\ CASE w = 1 -> TRUE
         [] w = 2 -> IsCont(b[i + 1])
         [] w = 3 ->
              /\ \/ b[i] = 224 /\ b[i + 1] >= 160 /\ b[i + 1] <= 191
                 \/ b[i] >= 225 /\ b[i] <= 236 /\ IsCont(b[i + 1])
                 \/ b[i] = 237 /\ b[i + 1] >= 128 /\ b[i + 1] <= 159
                 \/ b[i] >= 238 /\ b[i] <= 239 /\ IsCont(b[i + 1])
              /\ IsCont(b[i + 2])
         [] OTHER ->
              /\ \/ b[i] = 240 /\ b[i + 1] >= 144 /\ b[i + 1] <= 191
                 \/ b[i] >= 241 /\ b[i] <= 243 /\ IsCont(b[i + 1])
                 \/ b[i] = 244 /\ b[i + 1] >= 128 /\ b[i + 1] <= 143
              /\ IsCont(b[i + 2])
              /\ IsCont(b[i + 3])

RECURSIVE ValidFrom(_, _)
ValidFrom(b, i) ==
    IF i > Len(b) THEN TRUE
    ELSE LET w == Utf8CharWidth(b[i])
         IN  WellFormedAt(b, i, w) /\ ValidFrom(b, i + w)

\* core::str::from_utf8(b).is_ok()
ValidUtf8(b) == ValidFrom(b, 1)

\* str::is_char_boundary(index), index a 0-based byte offset
IsCharBoundary(b, index) ==
    IF index = 0 THEN TRUE
    ELSE IF index >= Len(b) THEN index = Len(b)
    ELSE IsUtf8CharBoundary(b[index + 1])

\* next_code_point on the bytes from 0-based offset idx (idx < Len(b), a
\* boundary of valid UTF-8): the code point and its width.
CharAt(b, idx) ==
    LET x == b[idx + 1]
        w == Utf8CharWidth(x)
    IN  CASE w = 1 -> [ch |-> x, w |-> 1]
          [] w = 2 -> [ch |-> (x % 32) * 64 + (b[idx + 2] % 64), w |-> 2]
          [] w = 3 -> [ch |-> (x % 16) * 4096 + (b[idx + 2] % 64) * 64
                              + (b[idx + 3] % 64), w |-> 3]
          [] OTHER -> [ch |-> (x % 8) * 262144 + (b[idx + 2] % 64) * 4096
                              + (b[idx + 3] % 64) * 64 + (b[idx + 4] % 64),
                       w |-> 4]

\* next_code_point_reverse: the 0-based offset where the last character
\* starts (b non-empty valid UTF-8): step back over continuation bytes.
RECURSIVE LastCharStart(_, _)
LastCharStart(b, i) ==
    IF i <= 1 THEN 0
    ELSE IF IsUtf8CharBoundary(b[i]) THEN i - 1
    ELSE LastCharStart(b, i - 1)

\* u8::to_ascii_lowercase / to_ascii_uppercase
ToAsciiLower(x) == IF x >= 65 /\ x <= 90 THEN x + 32 ELSE x
ToAsciiUpper(x) == IF x >= 97 /\ x <= 122 THEN x - 32 ELSE x

\* All well-formed strings over the characters cs of at most n bytes.
RECURSIVE StrsUpTo(_, _)
StrsUpTo(cs, n) ==
    IF n = 0 THEN {<<>>}
    ELSE LET prev == StrsUpTo(cs, n - 1)
         IN  prev \cup {t \in {s \o EncodeUtf8(c) : s \in prev, c \in cs} :
                          Len(t) <= n}

(***************************************************************************)
(* Values.  A native string / byte vector and a String32 are records       *)
(* [bytes, cap].  What an operation returns is a record [tag, val, cap]:   *)
(* val holds a character as <<code point>> and a string as its bytes.      *)
(***************************************************************************)
Buf(bytes, cap) == [bytes |-> bytes, cap |-> cap]

Ret(tag, val, cap) == [tag |-> tag, val |-> val, val2 |-> <<>>, cap |-> cap]
Ret2(tag, val, val2) == [tag |-> tag, val |-> val, val2 |-> val2, cap |-> 0]
Unit == Ret("unit", <<>>, 0)

\* The outcome of a native String method on st: whether it panicked, the
\* string afterwards and the value returned.
Done(st, ret) == [panic |-> FALSE, str |-> st, ret |-> ret]
Panicked(st) == [panic |-> TRUE, str |-> st, ret |-> Unit]

(***************************************************************************)
(* The native String (alloc::string::String), the delegate of every        *)
(* mutation.  Offsets are 0-based byte offsets, as in the source.          *)
(***************************************************************************)
\* Vec::reserve(additional) -> RawVec::grow_amortized: the new capacity, or
\* -1 for "capacity overflow".  (The minimum non-zero capacity of 8 bytes is
\* left out: it is negligible against u32::MAX and is not against U32_MAX.)
GrowAmortized(st, additional) ==
    IF st.cap - Len(st.bytes) >= additional THEN st.cap
    ELSE LET required == Len(st.bytes) + additional
             cap == Max(st.cap * 2, required)
         IN  IF cap > NATIVE_MAX THEN -1 ELSE cap

\* String::push_str(string)
String_push_str(st, string) ==
    LET cap == GrowAmortized(st, Len(string))
    IN  IF cap < 0 THEN Panicked(st)
        ELSE Done(Buf(st.bytes \o string, cap), Unit)

\* String::push(ch)
String_push(st, ch) == String_push_str(st, EncodeUtf8(ch))

\* String::pop()
String_pop(st) ==
    IF Len(st.bytes) = 0 THEN Done(st, Ret("none", <<>>, 0))
    ELSE LET at == LastCharStart(st.bytes, Len(st.bytes))
             c == CharAt(st.bytes, at)
             newlen == Len(st.bytes) - LenUtf8(c.ch)
         IN  Done(Buf(SubSeq(st.bytes, 1, newlen), st.cap),
                  Ret("some", <<c.ch>>, 0))

\* String::remove(idx): self[idx..] panics unless idx is a boundary <= len,
\* and an empty rest is "cannot remove a char from the end of a string".
String_remove(st, idx) ==
    IF ~IsCharBoundary(st.bytes, idx) THEN Panicked(st)
    ELSE IF idx = Len(st.bytes) THEN Panicked(st)
    ELSE LET c == CharAt(st.bytes, idx)
             next == idx + LenUtf8(c.ch)
         IN  Done(Buf(SubSeq(st.bytes, 1, idx)
                        \o SubSeq(st.bytes, next + 1, Len(st.bytes)), st.cap),
                  Ret("char", <<c.ch>>, 0))

\* String::insert_str(idx, string): assert!(self.is_char_boundary(idx))
String_insert_str(st, idx, string) ==
    IF ~IsCharBoundary(st.bytes, idx) THEN Panicked(st)
    ELSE LET cap == GrowAmortized(st, Len(string))
         IN  IF cap < 0 THEN Panicked(st)
             ELSE Done(Buf(SubSeq(st.bytes, 1, idx) \o string
                             \o SubSeq(st.bytes, idx + 1, Len(st.bytes)), cap),
                       Unit)

\* String::insert(idx, ch)
String_insert(st, idx, ch) == String_insert_str(st, idx, EncodeUtf8(ch))

\* String::truncate(new_len): a no-op when new_len > len
String_truncate(st, new_len) ==
    IF new_len <= Len(st.bytes)
    THEN IF ~IsCharBoundary(st.bytes, new_len) THEN Panicked(st)
         ELSE Done(Buf(SubSeq(st.bytes, 1, new_len), st.cap), Unit)
    ELSE Done(st, Unit)

\* String::split_off(at): assert!(self.is_char_boundary(at)); the tail is a
\* new allocation of exactly its length (Vec::split_off; with at = 0 the
\* whole buffer is handed over and self keeps an empty one of equal capacity).
String_split_off(st, at) ==
    IF ~IsCharBoundary(st.bytes, at) THEN Panicked(st)
    ELSE IF at = 0
    THEN Done(Buf(<<>>, st.cap), Ret("string", st.bytes, st.cap))
    ELSE Done(Buf(SubSeq(st.bytes, 1, at), st.cap),
              Ret("string", SubSeq(st.bytes, at + 1, Len(st.bytes)),
                  Len(st.bytes) - at))

\* String::shrink_to_fit()
String_shrink_to_fit(st) == Done(Buf(st.bytes, Len(st.bytes)), Unit)

\* str::make_ascii_lowercase / make_ascii_uppercase
RECURSIVE AsciiLower(_)
AsciiLower(b) ==
    IF b = <<>> THEN <<>> ELSE <<ToAsciiLower(Head(b))>> \o AsciiLower(Tail(b))
RECURSIVE AsciiUpper(_)
AsciiUpper(b) ==
    IF b = <<>> THEN <<>> ELSE <<ToAsciiUpper(Head(b))>> \o AsciiUpper(Tail(b))

String_make_ascii_lowercase(st) == Done(Buf(AsciiLower(st.bytes), st.cap), Unit)
String_make_ascii_uppercase(st) == Done(Buf(AsciiUpper(st.bytes), st.cap), Unit)

(***************************************************************************)
(* The width conversion and Vec32<u8> (the mediumvec crate), which holds   *)
(* the bytes of a String32 with a u32 length and a u32 capacity.           *)
(***************************************************************************)
\* u32::try_from(n: usize): n, or -1 for Err(TryFromIntError)
U32TryFrom(n) == IF n <= U32_MAX THEN n ELSE -1

\* Vec32::new(), also Default::default() and so what mem::take leaves behind
Vec32_new == Buf(<<>>, 0)

\* Vec32::with_capacity(cap)
Vec32_with_capacity(cap) == Buf(<<>>, cap)

\* Vec32::from_vec(vec): panics when the length does not fit in u32 (the
\* panic that push_str of lib.rs documents and leaves to it); a capacity
\* that does not fit is given up by reallocating to the length.
Vec32_from_vec(vec) ==
    IF Len(vec.bytes) > U32_MAX THEN [panic |-> TRUE, vec |-> Vec32_new]
    ELSE [panic |-> FALSE,
          vec |-> Buf(vec.bytes,
                      IF vec.cap > U32_MAX THEN Len(vec.bytes) ELSE vec.cap)]

\* Vec32::clear()
Vec32_clear(v) == Buf(<<>>, v.cap)

\* Vec32::reserve(additional): "capacity overflow" when len + additional does
\* not fit in u32 (-1); otherwise at least that much, doubling when it can.
Vec32_reserve(v, additional) ==
    LET min_cap == Len(v.bytes) + additional
    IN  IF min_cap > U32_MAX THEN -1
        ELSE IF min_cap <= v.cap THEN v.cap
        ELSE Max(min_cap, Min(v.cap * 2, U32_MAX))

\* Vec32::reserve_exact(additional)
Vec32_reserve_exact(v, additional) ==
    LET min_cap == Len(v.bytes) + additional
    IN  IF min_cap > U32_MAX THEN -1 ELSE Max(min_cap, v.cap)

(***************************************************************************)
(* What a String32 method does to its receiver: whether it panicked, the   *)
(* receiver afterwards and the value returned.  Every mutation moves the   *)
(* content out with mem::take first, so a panic leaves the default.        *)
(***************************************************************************)
Returned(self, ret) == [panic |-> FALSE, self |-> self, ret |-> ret]
Aborted == [panic |-> TRUE, self |-> Vec32_new, ret |-> Unit]

\* A conversion's Result: Ok(val) or Err(err); panic when it aborted instead.
Ok(val) == [panic |-> FALSE, ok |-> TRUE, val |-> val, err |-> Unit]
Err(err) == [panic |-> FALSE, ok |-> FALSE, val |-> Vec32_new, err |-> err]
ConvAborted == [panic |-> TRUE, ok |-> FALSE, val |-> Vec32_new, err |-> Unit]

\* Ok(Self(Vec32::from_vec(v)))
OkFromVec(v) ==
    LET r == Vec32_from_vec(v) IN IF r.panic THEN ConvAborted ELSE Ok(r.vec)

(***************************************************************************)
(* string32.rs: the conversions.                                           *)
(***************************************************************************)
\* A faulty TryFrom<String>: it builds the Vec32 from the raw parts with
\* "as u32" casts, and the cast of the capacity wraps.
TryFrom_String_cast(s) ==
    IF U32TryFrom(Len(s.bytes)) >= 0
    THEN Ok(Buf(s.bytes, s.cap % (U32_MAX + 1)))
    ELSE Err(Ret("TryFromStringError", s.bytes, s.cap))

\* A faulty TryFrom<String>: it tests the capacity where the code tests
\* the length.
TryFrom_String_by_capacity(s) ==
    IF U32TryFrom(s.cap) >= 0 THEN OkFromVec(s)
    ELSE Err(Ret("TryFromStringError", s.bytes, s.cap))

\* impl TryFrom<String> for String32
TryFrom_String(s) ==
    IF U32TryFrom(Len(s.bytes)) >= 0 THEN OkFromVec(s)
    ELSE Err(Ret("TryFromStringError", s.bytes, s.cap))

\* impl TryFrom<Box<str>> for String32 (a box holds exactly its bytes)
TryFrom_BoxStr(s) ==
    IF U32TryFrom(Len(s)) >= 0 THEN OkFromVec(Buf(s, Len(s)))
    ELSE Err(Ret("TryFromStringError", s, Len(s)))

\* impl TryFrom<&str> for String32
TryFrom_str(s) ==
    IF U32TryFrom(Len(s)) >= 0 THEN OkFromVec(Buf(s, Len(s)))
    ELSE Err(Ret("TryFromStrError", <<>>, 0))

\* impl From<String32> for String: from_utf8(..).unwrap() with
\* debug_assertions, from_utf8_unchecked without.
FromPanics(s, debug) == debug /\ ~ValidUtf8(s.bytes)
String_from(s) == Buf(s.bytes, s.cap)

\* A faulty from_utf8: without the unwrap, a buffer that is too long comes
\* back in the overflow error.
from_utf8_no_unwrap(v) ==
    IF ~ValidUtf8(v.bytes) THEN Err(Ret("FromUtf8Error", v.bytes, v.cap))
    ELSE TryFrom_String(v)

\* String32::from_utf8(v)
from_utf8(v) ==
    IF ~ValidUtf8(v.bytes) THEN Err(Ret("FromUtf8Error", v.bytes, v.cap))
    ELSE LET r == TryFrom_String(v)
         IN  IF r.ok THEN r ELSE ConvAborted

(***************************************************************************)
(* string32.rs: String32.  as_string is given r, what the closure f did    *)
(* to the String taken out of self.                                        *)
(***************************************************************************)
\* A faulty as_string: a String that no longer fits is dropped silently
\* ("if let Ok(x) = s.try_into()") and self stays as mem::take left it.
as_string_swallow(self, debug, r) ==
    IF FromPanics(self, debug) \/ r.panic THEN Aborted
    ELSE LET c == TryFrom_String(r.str)
         IN  IF c.ok THEN Returned(c.val, r.ret) ELSE Returned(Vec32_new, r.ret)

\* A faulty as_string: the closure works on a copy ("self.clone().into()"),
\* so a panic leaves self with the content it had.
as_string_cloned(self, debug, r) ==
    IF FromPanics(self, debug) \/ r.panic
    THEN [panic |-> TRUE, self |-> self, ret |-> Unit]
    ELSE LET c == TryFrom_String(r.str)
         IN  IF c.ok THEN Returned(c.val, r.ret)
             ELSE [panic |-> TRUE, self |-> self, ret |-> Unit]

\* String32::as_string: mem::take(self).into(), f(&mut s), s.try_into().unwrap()
as_string(self, debug, r) ==
    IF FromPanics(self, debug) \/ r.panic THEN Aborted
    ELSE LET c == TryFrom_String(r.str)
         IN  IF c.ok THEN Returned(c.val, r.ret) ELSE Aborted

push(self, debug, ch) == as_string(self, debug, String_push(String_from(self), ch))

\* A faulty push_str: the string is put in front.
push_str_front(self, debug, s) ==
    as_string(self, debug, String_insert_str(String_from(self), 0, s))

\* String32::push_str
push_str(self, debug, s) ==
    as_string(self, debug, String_push_str(String_from(self), s))

\* impl ops::Add<&str> / Add<&Str32> for String32: self.push_str(rhs); self
add(self, debug, rhs) ==
    LET r == push_str(self, debug, rhs)
    IN  IF r.panic THEN r
        ELSE Returned(r.self, Ret("String32", r.self.bytes, r.self.cap))

\* impl ops::AddAssign<&str> / AddAssign<&Str32> for String32
add_assign(self, debug, rhs) == push_str(self, debug, rhs)

pop(self, debug) == as_string(self, debug, String_pop(String_from(self)))

\* A faulty remove: it deletes one byte, not one character.
remove_byte(self, debug, idx) ==
    LET r == String_remove(String_from(self), idx)
    IN  IF r.panic THEN as_string(self, debug, r)
        ELSE as_string(self, debug,
                       Done(Buf(SubSeq(self.bytes, 1, idx)
                                  \o SubSeq(self.bytes, idx + 2, Len(self.bytes)),
                                self.cap),
                            r.ret))

\* String32::remove
remove(self, debug, idx) ==
    as_string(self, debug, String_remove(String_from(self), idx))

insert(self, debug, idx, ch) ==
    as_string(self, debug, String_insert(String_from(self), idx, ch))

\* A faulty insert_str: an offset past the end is taken for the end.
insert_str_clamped(self, debug, idx, s) ==
    as_string(self, debug,
              String_insert_str(String_from(self), Min(idx, Len(self.bytes)), s))

\* String32::insert_str
insert_str(self, debug, idx, s) ==
    as_string(self, debug, String_insert_str(String_from(self), idx, s))

shrink_to_fit(self, debug) ==
    as_string(self, debug, String_shrink_to_fit(String_from(self)))

\* A faulty truncate: it cuts the byte vector itself, as clear() does, and
\* so without the boundary test of String::truncate.
truncate_raw(self, debug, new_len) ==
    Returned(Buf(SubSeq(self.bytes, 1, Min(new_len, Len(self.bytes))), self.cap),
             Unit)

\* String32::truncate
truncate(self, debug, new_len) ==
    as_string(self, debug, String_truncate(String_from(self), new_len))

clear(self) == Returned(Vec32_clear(self), Unit)

\* String32::capacity: self.0.capacity()
capacity(self) == self.cap

\* The closure of split_off: s.split_off(at).try_into().unwrap()
SplitOffClosure(st, at) ==
    LET r == String_split_off(st, at)
    IN  IF r.panic THEN r
        ELSE LET c == TryFrom_String(Buf(r.ret.val, r.ret.cap))
             IN  IF c.ok THEN Done(r.str, Ret("String32", c.val.bytes, c.val.cap))
                 ELSE Panicked(r.str)

\* A faulty split_off: an offset inside a character is moved down to the
\* start of that character.
RECURSIVE FloorCharBoundary(_, _)
FloorCharBoundary(b, at) ==
    IF IsCharBoundary(b, at) THEN at ELSE FloorCharBoundary(b, at - 1)

split_off_floor(self, debug, at) ==
    as_string(self, debug,
              SplitOffClosure(String_from(self), FloorCharBoundary(self.bytes, at)))

\* String32::split_off
split_off(self, debug, at) ==
    as_string(self, debug, SplitOffClosure(String_from(self), at))

\* Str32::make_ascii_lowercase / make_ascii_uppercase through DerefMut: in
\* place, the buffer is not taken.
make_ascii_lowercase(self) == Returned(Buf(AsciiLower(self.bytes), self.cap), Unit)
make_ascii_uppercase(self) == Returned(Buf(AsciiUpper(self.bytes), self.cap), Unit)

(***************************************************************************)
(* lib.rs: the single-file draft.                                          *)
(***************************************************************************)
\* impl TryFrom<String> for String32: TryFromStringError(()) holds nothing
lib_TryFrom_String(s) ==
    IF U32TryFrom(Len(s.bytes)) >= 0 THEN OkFromVec(s)
    ELSE Err(Ret("TryFromStringError", <<>>, 0))

\* A faulty conversion back: through a boxed str, which gives up the spare
\* capacity.
lib_via_string_boxed(self, debug, r) ==
    IF FromPanics(self, debug) \/ r.panic THEN Aborted
    ELSE LET c == lib_TryFrom_String(Buf(r.str.bytes, Len(r.str.bytes)))
         IN  IF c.ok THEN Returned(c.val, r.ret) ELSE Aborted

\* let mut s = String::from(self.take()); <r>; *self = s.try_into().unwrap();
lib_via_string(self, debug, r) ==
    IF FromPanics(self, debug) \/ r.panic THEN Aborted
    ELSE LET c == lib_TryFrom_String(r.str)
         IN  IF c.ok THEN Returned(c.val, r.ret) ELSE Aborted

\* String32::len: self.vec.len().try_into().unwrap(); -1 when it panics
lib_len(self) == U32TryFrom(Len(self.bytes))

lib_push(self, debug, ch) ==
    lib_via_string(self, debug, String_push(String_from(self), ch))

\* A faulty pop: it takes the first character.
lib_pop_first(self, debug) ==
    IF self.bytes = <<>>
    THEN lib_via_string(self, debug, String_pop(String_from(self)))
    ELSE LET r == String_remove(String_from(self), 0)
         IN  lib_via_string(self, debug, Done(r.str, Ret("some", r.ret.val, 0)))

lib_pop(self, debug) == lib_via_string(self, debug, String_pop(String_from(self)))

lib_remove(self, debug, idx) ==
    lib_via_string(self, debug, String_remove(String_from(self), idx))

lib_insert(self, debug, idx, ch) ==
    lib_via_string(self, debug, String_insert(String_from(self), idx, ch))

lib_insert_str(self, debug, idx, string) ==
    lib_via_string(self, debug, String_insert_str(String_from(self), idx, string))

\* push_str works on the Vec<u8>: extend_from_slice, then Vec32::from_vec
lib_push_str(self, string) ==
    LET r == String_push_str(String_from(self), string)
        v == Vec32_from_vec(r.str)
    IN  IF r.panic \/ v.panic THEN Aborted ELSE Returned(v.vec, Unit)

\* A faulty shrink_to_fit: the bytes are taken and put back, and the call
\* of Vec::shrink_to_fit between the two is missing.
lib_shrink_to_fit_missing(self) ==
    LET v == Vec32_from_vec(String_from(self))
    IN  IF v.panic THEN Aborted ELSE Returned(v.vec, Unit)

\* shrink_to_fit works on the Vec<u8> too
lib_shrink_to_fit(self) ==
    LET r == String_shrink_to_fit(String_from(self))
        v == Vec32_from_vec(r.str)
    IN  IF v.panic THEN Aborted ELSE Returned(v.vec, Unit)

\* A faulty truncate: a new length past the end is refused, as slicing
\* would refuse it, where String::truncate does nothing.
lib_truncate_strict(self, debug, new_len) ==
    IF new_len > Len(self.bytes) THEN Aborted
    ELSE lib_via_string(self, debug, String_truncate(String_from(self), new_len))

lib_truncate(self, debug, new_len) ==
    lib_via_string(self, debug, String_truncate(String_from(self), new_len))

\* split_off: *self = s.try_into().unwrap(); other.try_into().unwrap()
\* A faulty split_off: the two halves change places.
lib_split_off_swapped(self, debug, at) ==
    LET r == lib_via_string(self, debug, String_split_off(String_from(self), at))
    IN  IF r.panic THEN r
        ELSE Returned(Buf(r.ret.val, Max(r.self.cap, Len(r.ret.val))),
                      Ret("String32", r.self.bytes, r.self.cap))

lib_split_off(self, debug, at) ==
    LET r == lib_via_string(self, debug, String_split_off(String_from(self), at))
    IN  IF r.panic THEN r
        ELSE LET c == lib_TryFrom_String(Buf(r.ret.val, r.ret.cap))
             IN  IF c.ok
                 THEN Returned(r.self, Ret("String32", c.val.bytes, c.val.cap))
                 ELSE [panic |-> TRUE, self |-> r.self, ret |-> Unit]

lib_make_ascii_lowercase(self, debug) ==
    lib_via_string(self, debug, String_make_ascii_lowercase(String_from(self)))

lib_make_ascii_uppercase(self, debug) ==
    lib_via_string(self, debug, String_make_ascii_uppercase(String_from(self)))

\* String32::reserve / reserve_exact, the same in both drafts: the Vec32 is
\* reserved in place.
reserve(self, additional) ==
    LET cap == Vec32_reserve(self, additional)
    IN  IF cap < 0 THEN [panic |-> TRUE, self |-> self, ret |-> Unit]
        ELSE Returned(Buf(self.bytes, cap), Unit)

reserve_exact(self, additional) ==
    LET cap == Vec32_reserve_exact(self, additional)
    IN  IF cap < 0 THEN [panic |-> TRUE, self |-> self, ret |-> Unit]
        ELSE Returned(Buf(self.bytes, cap), Unit)

(***************************************************************************)
(* str32.rs: Str32, a view of bytes; the view is its byte sequence.        *)
(***************************************************************************)
\* impl Deref for String32
deref(self) == self.bytes

\* impl TryFrom<&str> for &Str32
Str32_try_from(s) ==
    IF U32TryFrom(Len(s)) >= 0 THEN [ok |-> TRUE, view |-> s]
    ELSE [ok |-> FALSE, view |-> <<>>]

\* impl TryFrom<&str> for &Str32 and TryFrom<&mut str> for &mut Str32 of
\* str32.rs, as the Result: the view, or Err(TryFromStrError(()))
TryFrom_str_for_Str32(s) ==
    IF Str32_try_from(s).ok THEN Ret("view", Str32_try_from(s).view, 0)
    ELSE Ret("TryFromStrError", <<>>, 0)

\* impl TryFrom<&str> for &Str32 of lib.rs: Err(TryFromStringError(()))
lib_TryFrom_str_for_Str32(s) ==
    IF U32TryFrom(Len(s)) >= 0 THEN Ret("view", s, 0)
    ELSE Ret("TryFromStringError", <<>>, 0)

\* Str32::from_mut_str of lib.rs: u32::try_from(s.len()).unwrap(), then the
\* cast
lib_from_mut_str(s) ==
    IF U32TryFrom(Len(s)) >= 0 THEN [panic |-> FALSE, ret |-> Ret("view", s, 0)]
    ELSE [panic |-> TRUE, ret |-> Unit]

\* A faulty len: it counts characters, not bytes.
Str32_len_chars(v) ==
    Cardinality({i \in 1..Len(v) : IsUtf8CharBoundary(v[i])})

\* Str32::len: self.0.len().try_into().unwrap(); -1 when the unwrap panics
Str32_len(v) == U32TryFrom(Len(v))

\* Str32::is_empty
Str32_is_empty(v) == Str32_len(v) = 0

\* Str32::is_char_boundary
Str32_is_char_boundary(v, index) == IsCharBoundary(v, index)

\* Str32::split_at / split_at_mut: str::split_at panics unless mid is a
\* boundary; both halves are converted and unwrapped.
split_at(v, mid) ==
    IF ~IsCharBoundary(v, mid) THEN [panic |-> TRUE, ret |-> Unit]
    ELSE LET s1 == Str32_try_from(SubSeq(v, 1, mid))
             s2 == Str32_try_from(SubSeq(v, mid + 1, Len(v)))
         IN  IF s1.ok /\ s2.ok
             THEN [panic |-> FALSE, ret |-> Ret2("views", s1.view, s2.view)]
             ELSE [panic |-> TRUE, ret |-> Unit]

\* char::is_whitespace (the White_Space property)
IsWhitespace(c) ==
    \/ c = 32 \/ (c >= 9 /\ c <= 13) \/ c = 133 \/ c = 160 \/ c = 5760
    \/ (c >= 8192 /\ c <= 8202) \/ c = 8232 \/ c = 8233 \/ c = 8239
    \/ c = 8287 \/ c = 12288

\* str::trim_start / trim_end / trim
RECURSIVE StrTrimStart(_)
StrTrimStart(b) ==
    IF b = <<>> THEN b
    ELSE LET c == CharAt(b, 0)
         IN  IF IsWhitespace(c.ch) THEN StrTrimStart(SubSeq(b, c.w + 1, Len(b)))
             ELSE b

RECURSIVE StrTrimEnd(_)
StrTrimEnd(b) ==
    IF b = <<>> THEN b
    ELSE LET at == LastCharStart(b, Len(b))
         IN  IF IsWhitespace(CharAt(b, at).ch) THEN StrTrimEnd(SubSeq(b, 1, at))
             ELSE b

StrTrim(b) == StrTrimEnd(StrTrimStart(b))

\* str::lines: the pieces ended by '\n' (a '\r' before it dropped too) and
\* the rest, when it is not empty.
RECURSIVE StrLinesFrom(_, _)
StrLinesFrom(b, i) ==
    IF b = <<>> THEN <<>>
    ELSE IF i > Len(b) THEN <<b>>
    ELSE IF b[i] = 10
    THEN LET line == SubSeq(b, 1, i - 1)
             cut == IF line # <<>> /\ line[Len(line)] = 13
                    THEN SubSeq(line, 1, Len(line) - 1) ELSE line
         IN  <<cut>> \o StrLinesFrom(SubSeq(b, i + 1, Len(b)), 1)
    ELSE StrLinesFrom(b, i + 1)

StrLines(b) == StrLinesFrom(b, 1)

\* str::split_whitespace: the non-empty pieces between whitespace
\* characters; cur is the piece being collected from offset idx on.
RECURSIVE StrSplitWs(_, _, _)
StrSplitWs(b, idx, cur) ==
    IF idx >= Len(b) THEN (IF cur = <<>> THEN <<>> ELSE <<cur>>)
    ELSE LET c == CharAt(b, idx)
         IN  IF IsWhitespace(c.ch)
             THEN (IF cur = <<>> THEN <<>> ELSE <<cur>>)
                    \o StrSplitWs(b, idx + c.w, <<>>)
             ELSE StrSplitWs(b, idx + c.w,
                             cur \o SubSeq(b, idx + 1, idx + c.w))

StrSplitWhitespace(b) == StrSplitWs(b, 0, <<>>)

\* str::split_ascii_whitespace: the non-empty pieces between ASCII
\* whitespace bytes (u8::is_ascii_whitespace: space, \t, \n, form feed,
\* \r); cur is the piece being collected from the i-th byte on.
RECURSIVE StrSplitAsciiWs(_, _, _)
StrSplitAsciiWs(b, i, cur) ==
    IF i > Len(b) THEN (IF cur = <<>> THEN <<>> ELSE <<cur>>)
    ELSE IF b[i] \in {32, 9, 10, 12, 13}
    THEN (IF cur = <<>> THEN <<>> ELSE <<cur>>) \o StrSplitAsciiWs(b, i + 1, <<>>)
    ELSE StrSplitAsciiWs(b, i + 1, Append(cur, b[i]))

\* x.try_into().unwrap() of a sub-view: the view, or <<-1>> for the panic
Unwrapped(s) == IF Str32_try_from(s).ok THEN Str32_try_from(s).view ELSE <<-1>>

\* Str32::trim / trim_start / trim_end / lines / split_whitespace
trim(v) == Unwrapped(StrTrim(v))
trim_start(v) == Unwrapped(StrTrimStart(v))
trim_end(v) == Unwrapped(StrTrimEnd(v))
lines(v) == [i \in 1..Len(StrLines(v)) |-> Unwrapped(StrLines(v)[i])]
split_whitespace(v) ==
    [i \in 1..Len(StrSplitWhitespace(v)) |-> Unwrapped(StrSplitWhitespace(v)[i])]
split_ascii_whitespace(v) ==
    [i \in 1..Len(StrSplitAsciiWs(v, 1, <<>>)) |->
        Unwrapped(StrSplitAsciiWs(v, 1, <<>>)[i])]

(***************************************************************************)
(* Hashing: the bytes a value feeds to a Hasher, in order.                 *)
(***************************************************************************)
\* impl Hash for str: write(bytes), write_u8(0xff)
str_hash(b) == b \o <<255>>

\* Hasher::write_length_prefix -> write_usize: 8 bytes, little-endian
RECURSIVE LeBytes(_, _)
LeBytes(n, k) == IF k = 0 THEN <<>> ELSE <<n % 256>> \o LeBytes(n \div 256, k - 1)

\* impl Hash for [u8]: the length prefix, then the bytes
slice_hash(b) == LeBytes(Len(b), 8) \o b

\* str32.rs: impl Hash for Str32: self.0.hash(hasher)
Str32_hash(v) == str_hash(v)

\* string32.rs: impl Hash for String32: (**self).hash(state)
String32_hash(self) == Str32_hash(deref(self))

\* lib.rs: impl Hash for String32: self.as_str().hash(hasher)
lib_String32_hash(self) == str_hash(self.bytes)

\* lib.rs: #[derive(Hash)] struct Str32 { slice: [u8] }
lib_Str32_hash(v) == slice_hash(v)

(***************************************************************************)
(* Layout.  Sizes are in bytes, for a target whose pointers (and usize)    *)
(* take p bytes.                                                           *)
(***************************************************************************)
\* The targets: 32-bit and 64-bit pointers.
PointerBytes == {4, 8}

\* A struct's size: its fields laid out without gaps that its alignment
\* does not ask for, rounded up to the alignment a.
AlignUp(n, a) == ((n + a - 1) \div a) * a

\* Vec32<u8>: a pointer, a u32 capacity and a u32 length.
SizeOf_Vec32(p) == AlignUp(p + 4 + 4, Max(p, 4))

\* #[repr(transparent)] pub struct String32(Vec32<u8>)
SizeOf_String32(p) == SizeOf_Vec32(p)

\* String: a pointer, a usize capacity and a usize length.
SizeOf_String(p) == 3 * p

\* const _ASSERT_EQ_SIZE of lib.rs: [u8; SIZE - 16] and [u8; 16 - SIZE] are
\* both types (neither subtraction underflows) exactly when SIZE is 16.
ASSERT_EQ_SIZE(p) == SizeOf_String32(p) - 16 >= 0 /\ 16 - SizeOf_String32(p) >= 0

\* tests::size of lib.rs
tests_size(p) ==
    /\ SizeOf_String32(p) = 2 * p
    /\ SizeOf_String32(p) <= 2 * SizeOf_String(p)

(***************************************************************************)
(* Character indices.  core::str::CharIndices is the bytes not yet yielded *)
(* (rest) and the offset where they start (front_offset); an item is       *)
(* <<offset, code point>>, and None is <<>>.                               *)
(***************************************************************************)
\* str::char_indices()
Str_char_indices(b) == [front_offset |-> 0, rest |-> b]

\* core::str::CharIndices::next: the character at the front and the offset
\* it was found at; the offset moves on by the bytes consumed.
StrCharIndices_next(it) ==
    IF it.rest = <<>> THEN [item |-> <<>>, iter |-> it]
    ELSE LET c == CharAt(it.rest, 0)
         IN  [item |-> <<it.front_offset, c.ch>>,
              iter |-> [front_offset |-> it.front_offset + c.w,
                        rest |-> SubSeq(it.rest, c.w + 1, Len(it.rest))]]

\* core::str::CharIndices::count -> Chars::count: the bytes that are not
\* continuation bytes.
StrCharIndices_count(it) ==
    Cardinality({i \in 1..Len(it.rest) : ~IsCont(it.rest[i])})

\* core::str::CharIndices::last -> next_back: the last character, decoded
\* backwards, and the offset where it starts.
StrCharIndices_last(it) ==
    IF it.rest = <<>> THEN <<>>
    ELSE LET at == LastCharStart(it.rest, Len(it.rest))
         IN  <<it.front_offset + at, CharAt(it.rest, at).ch>>

\* |(i, c)| (i.try_into().unwrap(), c); <<-1, c>> when the unwrap panics
MapItem(item) == IF item = <<>> THEN <<>> ELSE <<U32TryFrom(item[1]), item[2]>>

\* charindices.rs: impl From<&Str32> for CharIndices, and lib.rs
\* Str32::char_indices
CharIndices_from(v) == [iter |-> Str_char_indices(v)]

\* charindices.rs: impl Iterator for CharIndices
CharIndices_next(self) ==
    [item |-> MapItem(StrCharIndices_next(self.iter).item),
     self |-> [iter |-> StrCharIndices_next(self.iter).iter]]

CharIndices_count(self) == StrCharIndices_count(self.iter)

CharIndices_last(self) == MapItem(StrCharIndices_last(self.iter))

\* The items next() yields until it yields None.
RECURSIVE Collected(_)
Collected(self) ==
    LET r == CharIndices_next(self)
    IN  IF r.item = <<>> THEN <<>> ELSE <<r.item>> \o Collected(r.self)

\* A faulty char_indices: it numbers the characters (chars().enumerate())
\* where the code gives their byte offsets.
char_indices_enumerate(v) ==
    [i \in 1..Len(Collected(CharIndices_from(v))) |->
        <<i - 1, Collected(CharIndices_from(v))[i][2]>>]

\* str32.rs Str32::char_indices: self.0.char_indices().map(..), given by
\* the items it yields.
char_indices(v) == Collected(CharIndices_from(v))

(***************************************************************************)
(* UTF-16.  A code unit is a number below 65536; 0xD800..0xDBFF are the    *)
(* high surrogates and 0xDC00..0xDFFF the low ones.                        *)
(***************************************************************************)
\* char::REPLACEMENT_CHARACTER, U+FFFD
REPLACEMENT_CHARACTER == 65533

\* u16::is_utf16_surrogate
IsSurrogate(u) == 55296 <= u /\ u <= 57343

\* What decode_utf16 says of an unpaired surrogate: Err(DecodeUtf16Error)
DecodeUtf16Error == -1

\* core::char::decode_utf16 on the units of v from the i-th on, collected:
\* a code point per well-formed unit or pair, DecodeUtf16Error per unpaired
\* surrogate (the unit after an unpaired high surrogate is decoded again).
RECURSIVE DecodeUtf16From(_, _)
DecodeUtf16From(v, i) ==
    IF i > Len(v) THEN <<>>
    ELSE LET u == v[i]
         IN  IF ~IsSurrogate(u) THEN <<u>> \o DecodeUtf16From(v, i + 1)
             ELSE IF u >= 56320
               THEN <<DecodeUtf16Error>> \o DecodeUtf16From(v, i + 1)
             ELSE IF i = Len(v) \/ v[i + 1] < 56320 \/ v[i + 1] > 57343
               THEN <<DecodeUtf16Error>> \o DecodeUtf16From(v, i + 1)
             ELSE <<65536 + (u - 55296) * 1024 + (v[i + 1] - 56320)>>
                    \o DecodeUtf16From(v, i + 2)

\* String::from_utf16(v) from the k-th decoded item on: ret.push(c) for
\* every Ok(c), return Err(FromUtf16Error(())) at the first Err.
RECURSIVE String_from_utf16_loop(_, _, _)
String_from_utf16_loop(items, k, ret) ==
    IF k > Len(items) THEN [panic |-> FALSE, ok |-> TRUE, str |-> ret]
    ELSE IF items[k] = DecodeUtf16Error
      THEN [panic |-> FALSE, ok |-> FALSE, str |-> ret]
    ELSE LET r == String_push(ret, items[k])
         IN  IF r.panic THEN [panic |-> TRUE, ok |-> FALSE, str |-> ret]
             ELSE String_from_utf16_loop(items, k + 1, r.str)

\* String::from_utf16(v): String::with_capacity(v.len()), then the loop
String_from_utf16(v) ==
    String_from_utf16_loop(DecodeUtf16From(v, 1), 1, Buf(<<>>, Len(v)))

\* String::from_utf16_lossy(v): every Err becomes REPLACEMENT_CHARACTER and
\* the characters are collected, after reserving the iterator's lower bound.
String_from_utf16_lossy(v) ==
    LET items == DecodeUtf16From(v, 1)
        chars == [k \in 1..Len(items) |->
                    IF items[k] = DecodeUtf16Error THEN REPLACEMENT_CHARACTER
                    ELSE items[k]]
    IN  String_from_utf16_loop(chars, 1, Buf(<<>>, (Len(v) + 1) \div 2))

\* A faulty from_utf16: it decodes as from_utf16_lossy does, so an input
\* that is not UTF-16 yields a string and no error.
from_utf16_never_err(v) ==
    LET d == String_from_utf16_lossy(v)
    IN  IF d.panic THEN ConvAborted
        ELSE LET r == TryFrom_String(d.str)
             IN  IF r.ok THEN r ELSE ConvAborted

\* String32::from_utf16(v): String::from_utf16(v).map(|s| s.try_into().unwrap())
from_utf16(v) ==
    LET d == String_from_utf16(v)
    IN  IF d.panic THEN ConvAborted
        ELSE IF ~d.ok THEN Err(Ret("FromUtf16Error", <<>>, 0))
        ELSE LET r == TryFrom_String(d.str)
             IN  IF r.ok THEN r ELSE ConvAborted

\* String32::from_utf16_lossy(v): String::from_utf16_lossy(v).try_into().unwrap()
from_utf16_lossy(v) ==
    LET d == String_from_utf16_lossy(v)
    IN  IF d.panic THEN ConvAborted
        ELSE LET r == TryFrom_String(d.str)
             IN  IF r.ok THEN r ELSE ConvAborted

(***************************************************************************)
(* The state machine: one String32 s of one draft, built by a constructor  *)
(* or a conversion, mutated, viewed and in the end converted back.         *)
(*   impl   which draft: "lib" or "string32"                               *)
(*   pc     where the caller is: "start" (no String32 yet), "live" (about  *)
(*          to call a method of s), "called" (a call has ended and its     *)
(*          outcome is in last), "failed" (the conversion returned Err or  *)
(*          panicked), "moved" (s was converted back), "measured" (the     *)
(*          size of the type was taken instead), "viewed" (a view of a     *)
(*          native slice was asked for instead), "converting" (inside a    *)
(*          conversion of a Box<Str32>), "overflowed" (the stack ran out   *)
(*          and the process was aborted)                                   *)
(*   s      the String32                                                   *)
(*   last   the last call: its name, the receiver (or the source) before   *)
(*          it, its offset and string arguments, whether it panicked and   *)
(*          what it returned                                               *)
(*   origin the bytes of the native value s was converted from, while s is *)
(*          still as the conversion made it; NoOrigin otherwise            *)
(***************************************************************************)
VARIABLES impl, pc, s, last, origin

vars == <<impl, pc, s, last, origin>>

Last(op, old, idx, arg, panic, ret) ==
    [op |-> op, old |-> old, idx |-> idx, arg |-> arg, panic |-> panic,
     ret |-> ret]

NoCall == Last("none", Vec32_new, 0, <<>>, FALSE, Unit)
NoOrigin == <<-1>>

\* The native strings handed to the conversions: every well-formed string of
\* up to U32_MAX + Beyond bytes, with no spare capacity, a little, or a
\* capacity past U32_MAX.
InStrs == StrsUpTo(InChars, U32_MAX + Beyond)
NativeInputs ==
    UNION {{Buf(b, Len(b)), Buf(b, Len(b) + 1), Buf(b, Max(Len(b), U32_MAX + 1))} :
           b \in InStrs}

\* Byte vectors that are not UTF-8: a lone continuation byte, a cut
\* character, an invalid byte after a valid one, and one too long as well.
InvalidVecs ==
    {Buf(<<130>>, 1), Buf(<<240, 159, 153>>, 4), Buf(<<97, 255>>, 2),
     Buf([i \in 1..(U32_MAX + 1) |-> 255], U32_MAX + 1)}

\* The UTF-16 inputs: every sequence of up to MaxUnits units out of 'a',
\* U+20AC (three bytes of UTF-8), a high and a low surrogate (together
\* U+1F642), and two of more than U32_MAX units, one well-formed and one
\* ending in an unpaired surrogate.
Utf16Inputs ==
    UNION {[1..n -> {97, 8364, 55357, 56898}] : n \in 0..MaxUnits}
      \cup {[i \in 1..(U32_MAX + 1) |-> 97],
            [i \in 1..(U32_MAX + 2) |-> IF i > U32_MAX + 1 THEN 55357 ELSE 97]}

\* The strings pushed and inserted.
\* The contents of the boxed views: they fit, as every Str32 does.
BoxedInputs == {b \in InStrs : Len(b) <= U32_MAX}

ArgStrs == {<<>>, <<97, 65>>} \cup {EncodeUtf8(c) : c \in ArgChars}

\* The offsets tried on self: every one up to its length, and one past it.
Offsets(self) == 0..(Len(self.bytes) + 1)

\* The builds to tell apart on self: with debug_assertions the conversion to
\* String checks the bytes and without them it does not, which differs only
\* when the bytes are not UTF-8.
Builds(self) == IF ValidUtf8(self.bytes) THEN {TRUE} ELSE BOOLEAN

Init ==
    /\ impl \in {"lib", "string32"}
    /\ pc = "start"
    /\ s = Vec32_new
    /\ last = NoCall
    /\ origin = NoOrigin

\* A constructor or conversion ended: s is its value when there is one.
Built(op, src, r) ==
    /\ pc = "start"
    /\ s' = r.val
    /\ pc' = IF r.ok THEN "called" ELSE "failed"
    /\ last' = Last(op, src, 0, <<>>, r.panic,
                    IF r.ok THEN Ret("Ok", r.val.bytes, r.val.cap) ELSE r.err)
    /\ origin' = IF r.ok /\ op \in {"try_from_String", "try_from_Box_str",
                                      "try_from_str", "from_utf8"}
                 THEN src.bytes
                 ELSE NoOrigin
    /\ UNCHANGED impl

\* A method of the live String32 ended with outcome r.
Called(op, idx, arg, r) ==
    /\ pc = "live"
    /\ s' = r.self
    /\ last' = Last(op, s, idx, arg, r.panic, r.ret)
    /\ pc' = "called"
    /\ origin' = IF r.self = s THEN origin ELSE NoOrigin
    /\ UNCHANGED impl

\* The caller drops what the call returned and goes on with s; after a
\* panic (caught, or met by a destructor) it goes on with what was left.
Forget ==
    /\ pc = "called"
    /\ pc' = "live"
    /\ last' = NoCall
    /\ UNCHANGED <<impl, s, origin>>

New == Built("new", Vec32_new, Ok(Vec32_new))

WithCapacity(cap) ==
    Built("with_capacity", Buf(<<>>, cap), Ok(Vec32_with_capacity(cap)))

TryFromString(st) ==
    Built("try_from_String", st,
          IF impl = "lib" THEN lib_TryFrom_String(st) ELSE TryFrom_String(st))

TryFromBoxStr(b) ==
    /\ impl = "string32"
    /\ Built("try_from_Box_str", Buf(b, Len(b)), TryFrom_BoxStr(b))

TryFromStr(b) ==
    /\ impl = "string32"
    /\ Built("try_from_str", Buf(b, Len(b)), TryFrom_str(b))

FromUtf8(v) ==
    /\ impl = "string32"
    /\ Built("from_utf8", v, from_utf8(v))

FromUtf16(v) ==
    /\ impl = "string32"
    /\ Built("from_utf16", Buf(v, Len(v)), from_utf16(v))

FromUtf16Lossy(v) ==
    /\ impl = "string32"
    /\ Built("from_utf16_lossy", Buf(v, Len(v)), from_utf16_lossy(v))

Push(ch, debug) ==
    Called("push", 0, EncodeUtf8(ch),
           IF impl = "lib" THEN lib_push(s, debug, ch) ELSE push(s, debug, ch))

PushStr(t, debug) ==
    Called("push_str", 0, t,
           IF impl = "lib" THEN lib_push_str(s, t) ELSE push_str(s, debug, t))

\* s = s + t and s += t (string32.rs only)
Add(t, debug) ==
    /\ impl = "string32"
    /\ Called("add", 0, t, add(s, debug, t))

AddAssign(t, debug) ==
    /\ impl = "string32"
    /\ Called("add_assign", 0, t, add_assign(s, debug, t))

Pop(debug) ==
    Called("pop", 0, <<>>,
           IF impl = "lib" THEN lib_pop(s, debug) ELSE pop(s, debug))

Remove(idx, debug) ==
    Called("remove", idx, <<>>,
           IF impl = "lib" THEN lib_remove(s, debug, idx)
           ELSE remove(s, debug, idx))

Insert(idx, ch, debug) ==
    Called("insert", idx, EncodeUtf8(ch),
           IF impl = "lib" THEN lib_insert(s, debug, idx, ch)
           ELSE insert(s, debug, idx, ch))

InsertStr(idx, t, debug) ==
    Called("insert_str", idx, t,
           IF impl = "lib" THEN lib_insert_str(s, debug, idx, t)
           ELSE insert_str(s, debug, idx, t))

Truncate(new_len, debug) ==
    Called("truncate", new_len, <<>>,
           IF impl = "lib" THEN lib_truncate(s, debug, new_len)
           ELSE truncate(s, debug, new_len))

SplitOff(at, debug) ==
    Called("split_off", at, <<>>,
           IF impl = "lib" THEN lib_split_off(s, debug, at)
           ELSE split_off(s, debug, at))

Clear == Called("clear", 0, <<>>, clear(s))

ShrinkToFit(debug) ==
    Called("shrink_to_fit", 0, <<>>,
           IF impl = "lib" THEN lib_shrink_to_fit(s) ELSE shrink_to_fit(s, debug))

Reserve(additional) == Called("reserve", additional, <<>>, reserve(s, additional))

ReserveExact(additional) ==
    Called("reserve_exact", additional, <<>>, reserve_exact(s, additional))

MakeAsciiLowercase(debug) ==
    Called("make_ascii_lowercase", 0, <<>>,
           IF impl = "lib" THEN lib_make_ascii_lowercase(s, debug)
           ELSE make_ascii_lowercase(s))

MakeAsciiUppercase(debug) ==
    Called("make_ascii_uppercase", 0, <<>>,
           IF impl = "lib" THEN lib_make_ascii_uppercase(s, debug)
           ELSE make_ascii_uppercase(s))

\* Str32::split_at on the view of s (str32.rs only): s is not changed.
SplitAt(mid) ==
    /\ impl = "string32"
    /\ LET r == split_at(deref(s), mid)
       IN  Called("split_at", mid, <<>>,
                  [panic |-> r.panic, self |-> s, ret |-> r.ret])

\* <&Str32>::try_from(b) on a native slice b: no String32 is involved, the
\* caller holds the view or the error.
ViewTryFrom(b) ==
    /\ pc = "start"
    /\ pc' = "viewed"
    /\ last' = Last("Str32_try_from", Buf(b, Len(b)), 0, <<>>, FALSE,
                    IF impl = "lib" THEN lib_TryFrom_str_for_Str32(b)
                    ELSE TryFrom_str_for_Str32(b))
    /\ UNCHANGED <<impl, s, origin>>

\* <&mut Str32>::try_from(b) of str32.rs, Str32::from_mut_str(b) of lib.rs
ViewFromMut(b) ==
    /\ pc = "start"
    /\ pc' = "viewed"
    /\ last' = IF impl = "lib"
               THEN Last("from_mut_str", Buf(b, Len(b)), 0, <<>>,
                         lib_from_mut_str(b).panic, lib_from_mut_str(b).ret)
               ELSE Last("Str32_try_from_mut", Buf(b, Len(b)), 0, <<>>, FALSE,
                         TryFrom_str_for_Str32(b))
    /\ UNCHANGED <<impl, s, origin>>

\* String::from(s): the String32 is consumed.
IntoString(debug) ==
    /\ pc = "live"
    /\ pc' = "moved"
    /\ s' = Vec32_new
    /\ last' = Last("into_String", s, 0, <<>>, FromPanics(s, debug),
                    IF FromPanics(s, debug) THEN Unit
                    ELSE Ret("String", String_from(s).bytes, String_from(s).cap))
    /\ UNCHANGED <<impl, origin>>

\* The conversions of an owned Box<Str32> (str32.rs only).  The methods
\* into_boxed_str, into_boxed_bytes, into_string and into_string32 are
\* self.into(), that is From::from(self) of the target type, and
\* From<Box<Str32>> for String32 starts with String::from(b).  The body of
\* From<Box<Str32>> for String, for Box<str> and for Box<[u8]> is b.into(),
\* which is From::from(b) of the same impl: last.idx counts the frames of
\* from that are on the stack.
BoxedConversions ==
    {"into_boxed_str", "into_boxed_bytes", "into_string", "into_string32"}

\* A caller that holds a Box<Str32> of bytes b calls the conversion: the
\* first from is entered.
BoxedInto(op, b) ==
    /\ impl = "string32"
    /\ pc = "start"
    /\ pc' = "converting"
    /\ last' = Last(op, Buf(b, Len(b)), 1, <<>>, FALSE, Unit)
    /\ UNCHANGED <<impl, s, origin>>

\* The body of from runs: b.into() enters from again, on a new frame, or
\* on the same one where the build made the tail call a jump.
From_Box_Str32(tail) ==
    /\ pc = "converting"
    /\ last.idx < MaxFrames
    /\ last' = [last EXCEPT !.idx = IF tail THEN @ ELSE @ + 1]
    /\ UNCHANGED <<impl, pc, s, origin>>

\* The call needs a frame and the stack has none left: the process is
\* aborted.
StackOverflow ==
    /\ pc = "converting"
    /\ last.idx = MaxFrames
    /\ pc' = "overflowed"
    /\ UNCHANGED <<impl, s, last, origin>>

\* tests::size of lib.rs on a target with pointers of p bytes: it takes
\* size_of::<String32>() and panics when an assertion fails.  Nothing is
\* built.
SizeOf(p) ==
    /\ pc = "start"
    /\ pc' = "measured"
    /\ last' = Last("size_of", Vec32_new, p, <<>>, ~tests_size(p),
                    Ret("usize", <<SizeOf_String32(p)>>, 0))
    /\ UNCHANGED <<impl, s, origin>>

\* The constructors and conversions are taken from "start", the methods
\* from "live".
Next ==
    \/ pc = "start" /\ New
    \/ pc = "start" /\ \E cap \in 0..MaxCap : WithCapacity(cap)
    \/ pc = "start" /\ \E st \in NativeInputs : TryFromString(st)
    \/ pc = "start" /\ \E b \in InStrs : TryFromBoxStr(b)
    \/ pc = "start" /\ \E b \in InStrs : TryFromStr(b)
    \/ pc = "start" /\ \E v \in NativeInputs \cup InvalidVecs : FromUtf8(v)
    \/ pc = "start" /\ \E v \in Utf16Inputs : FromUtf16(v)
    \/ pc = "start" /\ \E v \in Utf16Inputs : FromUtf16Lossy(v)
    \/ pc = "start" /\ \E b \in InStrs : ViewTryFrom(b)
    \/ pc = "start" /\ \E b \in InStrs : ViewFromMut(b)
    \/ pc = "live" /\ \E ch \in ArgChars, debug \in Builds(s) : Push(ch, debug)
    \/ pc = "live" /\ \E t \in ArgStrs, debug \in Builds(s) : PushStr(t, debug)
    \/ pc = "live" /\ \E t \in ArgStrs, debug \in Builds(s) : Add(t, debug)
    \/ pc = "live" /\ \E t \in ArgStrs, debug \in Builds(s) : AddAssign(t, debug)
    \/ pc = "live" /\ \E debug \in Builds(s) : Pop(debug)
    \/ pc = "live" /\ \E idx \in Offsets(s), debug \in Builds(s) :
                         Remove(idx, debug)
    \/ pc = "live" /\ \E idx \in Offsets(s), ch \in ArgChars, debug \in Builds(s) :
                         Insert(idx, ch, debug)
    \/ pc = "live" /\ \E idx \in Offsets(s), t \in ArgStrs, debug \in Builds(s) :
                         InsertStr(idx, t, debug)
    \/ pc = "live" /\ \E n \in Offsets(s), debug \in Builds(s) : Truncate(n, debug)
    \/ pc = "live" /\ \E at \in Offsets(s), debug \in Builds(s) : SplitOff(at, debug)
    \/ pc = "live" /\ Clear
    \/ pc = "live" /\ \E debug \in Builds(s) : ShrinkToFit(debug)
    \/ pc = "live" /\ \E n \in {0, 1, U32_MAX} : Reserve(n)
    \/ pc = "live" /\ \E n \in {0, 1, U32_MAX} : ReserveExact(n)
    \/ pc = "live" /\ \E debug \in Builds(s) : MakeAsciiLowercase(debug)
    \/ pc = "live" /\ \E debug \in Builds(s) : MakeAsciiUppercase(debug)
    \/ pc = "live" /\ \E mid \in Offsets(s) : SplitAt(mid)
    \/ pc = "live" /\ \E debug \in Builds(s) : IntoString(debug)
    \/ Forget
    \/ pc = "start" /\ \E p \in PointerBytes : SizeOf(p)
    \/ pc = "start" /\ \E op \in BoxedConversions, b \in BoxedInputs :
                          BoxedInto(op, b)
    \/ pc = "converting" /\ \E tail \in BOOLEAN : From_Box_Str32(tail)
    \/ pc = "converting" /\ StackOverflow

Spec == Init /\ [][Next]_vars

(***************************************************************************)
(* The properties.  What they speak of is computed here from the bytes,    *)
(* apart from the operators above.                                         *)
(***************************************************************************)
\* The 0-based offsets at which the characters of well-formed b start.
RECURSIVE CharStartsFrom(_, _)
CharStartsFrom(b, i) ==
    IF i > Len(b) THEN {}
    ELSE {i - 1} \cup CharStartsFrom(b, i + Max(1, Utf8CharWidth(b[i])))

CharStarts(b) == CharStartsFrom(b, 1)

\* The offset lies strictly inside a character of b.
InsideChar(b, idx) == idx > 0 /\ idx < Len(b) /\ idx \notin CharStarts(b)

\* The code points of well-formed b, and the bytes their encodings take.
RECURSIVE CharsFrom(_, _)
CharsFrom(b, idx) ==
    IF idx >= Len(b) THEN <<>>
    ELSE <<CharAt(b, idx).ch>> \o CharsFrom(b, idx + CharAt(b, idx).w)

RECURSIVE ByteCount(_)
ByteCount(chars) ==
    IF chars = <<>> THEN 0 ELSE LenUtf8(Head(chars)) + ByteCount(Tail(chars))

Utf8Bytes(b) == ByteCount(CharsFrom(b, 0))

HasMultiByte(b) == \E i \in 1..Len(b) : b[i] >= 128

\* C1 (round trip): converting a native String of at most u32::MAX bytes
\* succeeds, and converting the String32, still as the conversion made it,
\* back to a String yields the bytes of the original, in both drafts.
C1_RoundTrip ==
    /\ (last.op = "try_from_String" /\ Len(last.old.bytes) <= U32_MAX)
         => (~last.panic /\ last.ret.tag = "Ok" /\ origin = last.old.bytes)
    /\ (last.op = "into_String" /\ origin # NoOrigin)
         => (~last.panic /\ last.ret.tag = "String" /\ last.ret.val = origin)

C1_Witness ==
    /\ last.op = "into_String"
    /\ Len(origin) = U32_MAX
    /\ HasMultiByte(origin)
    /\ last.ret.val = origin

\* C2 (overflow rejection): converting a native string longer than
\* u32::MAX bytes returns an error without panicking; the error of an owned
\* source (String, Box<str>) holds the original string, the error of a
\* borrowed &str holds nothing.
C2_OverflowRejection ==
    /\ (last.op \in {"try_from_String", "try_from_Box_str"}
          /\ Len(last.old.bytes) > U32_MAX)
         => (~last.panic /\ last.ret.tag = "TryFromStringError"
               /\ last.ret.val = last.old.bytes)
    /\ (last.op = "try_from_str" /\ Len(last.old.bytes) > U32_MAX)
         => (~last.panic /\ last.ret.tag = "TryFromStrError"
               /\ last.ret.val = <<>>)

\* C3 (UTF-8 invariant): whatever safe operations were called, some of them
\* panicking, the String32 holds well-formed UTF-8, and so does every
\* String32 an operation returned.
C3_Utf8Invariant ==
    /\ ValidUtf8(s.bytes)
    /\ last.ret.tag \in {"Ok", "String32"} => ValidUtf8(last.ret.val)

C3_Witness ==
    /\ last.op = "remove"
    /\ last.panic
    /\ HasMultiByte(last.old.bytes)
    /\ s = Vec32_new

\* C4 (length and capacity domain): length and capacity of the String32,
\* and of every String32 returned, are within 0..u32::MAX with
\* length <= capacity, also when the native buffer it was made from had a
\* capacity above u32::MAX.
InDomain(bytes, cap) ==
    /\ 0 <= Len(bytes)
    /\ Len(bytes) <= cap
    /\ cap <= U32_MAX

C4_LenCapDomain ==
    /\ InDomain(s.bytes, s.cap)
    /\ last.ret.tag \in {"Ok", "String32"} => InDomain(last.ret.val, last.ret.cap)

C4_Witness ==
    /\ last.op = "try_from_String"
    /\ last.old.cap > U32_MAX
    /\ last.ret.tag = "Ok"
    /\ s.bytes = last.old.bytes
    /\ s.bytes # <<>>

\* C5 (length fidelity): len() of the String32, of its dereferenced view
\* and of every view derived from it (split_at, trim, trim_start, trim_end,
\* lines, split_whitespace) is the number of bytes the UTF-8 encodings of
\* its characters take, and is_empty() holds exactly when that is zero.
Faithful(v) ==
    /\ Str32_len(v) = Utf8Bytes(v)
    /\ Str32_is_empty(v) <=> (Utf8Bytes(v) = 0)

DerivedViews(v) ==
    {v, trim(v), trim_start(v), trim_end(v)}
      \cup {lines(v)[i] : i \in DOMAIN lines(v)}
      \cup {split_whitespace(v)[i] : i \in DOMAIN split_whitespace(v)}

C5_LengthFidelity ==
    /\ \A v \in DerivedViews(deref(s)) : Faithful(v)
    /\ impl = "lib" => lib_len(s) = Utf8Bytes(s.bytes)
    /\ last.ret.tag = "views" => Faithful(last.ret.val) /\ Faithful(last.ret.val2)

C5_Witness ==
    /\ last.op = "split_at"
    /\ last.ret.tag = "views"
    /\ Str32_len(last.ret.val) > 0
    /\ HasMultiByte(last.ret.val2)
    /\ Str32_len(trim(deref(s))) < Str32_len(deref(s))

\* C6 (boundary safety): split_off, insert, insert_str, remove, truncate
\* and split_at called with an offset strictly inside a multi-byte
\* character panic; nothing is returned and the string left behind is
\* well-formed.
C6_BoundarySafety ==
    (/\ last.op \in {"split_off", "insert", "insert_str", "remove", "truncate",
                     "split_at"}
     /\ InsideChar(last.old.bytes, last.idx))
      => (last.panic /\ last.ret = Unit /\ ValidUtf8(s.bytes))

C6_Witness ==
    /\ last.op = "split_off"
    /\ InsideChar(last.old.bytes, last.idx)
    /\ last.panic

\* C7 (growth overflow): push, push_str, insert and insert_str (the latter
\* two at a character boundary of the string) panic when the old length
\* plus the bytes added exceeds u32::MAX, and otherwise complete with
\* exactly that length.
Grown == Len(last.old.bytes) + Len(last.arg)

AtBoundary ==
    \/ last.op \in {"push", "push_str"}
    \/ last.idx \in CharStarts(last.old.bytes) \cup {Len(last.old.bytes)}

C7_GrowthOverflow ==
    last.op \in {"push", "push_str", "insert", "insert_str"}
      => /\ Grown > U32_MAX => last.panic
         /\ (Grown <= U32_MAX /\ AtBoundary)
              => (~last.panic /\ Len(s.bytes) = Grown)

C7_Witness ==
    /\ impl = "lib"
    /\ last.op = "push_str"
    /\ HasMultiByte(last.arg)
    /\ Len(last.old.bytes) < U32_MAX
    /\ Grown > U32_MAX
    /\ last.panic

PastEnd == last.idx > Len(last.old.bytes)

\* C8 (offset past the end), as the specification states it: insert,
\* insert_str, remove, truncate and split_off panic when the offset is
\* greater than the length.
C8_OffsetPastEnd ==
    (last.op \in {"insert", "insert_str", "remove", "truncate", "split_off"}
       /\ PastEnd)
      => last.panic

\* C8 (offset past the end), as the code has it: insert, insert_str, remove
\* and split_off panic when the offset is greater than the length (remove
\* also when it equals the length); truncate with a new length greater than
\* the length does not panic and leaves the content as it was.
C8_OffsetPastEndAmended ==
    /\ (last.op \in {"insert", "insert_str", "remove", "split_off"} /\ PastEnd)
         => last.panic
    /\ (last.op = "remove" /\ last.idx = Len(last.old.bytes)) => last.panic
    /\ (last.op = "truncate" /\ PastEnd)
         => (~last.panic /\ s.bytes = last.old.bytes)

C8_Witness ==
    /\ last.op = "truncate"
    /\ PastEnd
    /\ ~last.panic
    /\ s.bytes = last.old.bytes
    /\ s.bytes # <<>>

\* C9 (from_utf8), as the specification states it: the conversion succeeds
\* exactly when the length of the buffer fits in u32, and a longer buffer
\* comes back, without a panic, in an error that holds it.
C9_FromUtf8 ==
    last.op = "from_utf8"
      => /\ (last.ret.tag = "Ok") <=> (Len(last.old.bytes) <= U32_MAX)
         /\ Len(last.old.bytes) > U32_MAX
              => (~last.panic /\ last.ret.tag # "Ok"
                    /\ last.ret.val = last.old.bytes)

\* C9 (from_utf8), as the code has it: the conversion succeeds exactly when
\* the buffer is well-formed UTF-8 and its length fits in u32; a buffer that
\* is not well-formed comes back in a FromUtf8Error whatever its length; a
\* well-formed buffer longer than u32::MAX makes it panic.
C9_FromUtf8Amended ==
    last.op = "from_utf8"
      => /\ (last.ret.tag = "Ok")
              <=> (ValidUtf8(last.old.bytes) /\ Len(last.old.bytes) <= U32_MAX)
         /\ ~ValidUtf8(last.old.bytes)
              => (~last.panic /\ last.ret.tag = "FromUtf8Error"
                    /\ last.ret.val = last.old.bytes)
         /\ (ValidUtf8(last.old.bytes) /\ Len(last.old.bytes) > U32_MAX)
              => last.panic

C9_Witness ==
    /\ last.op = "from_utf8"
    /\ ValidUtf8(last.old.bytes)
    /\ Len(last.old.bytes) > U32_MAX
    /\ last.panic
    /\ pc = "failed"

\* C10 (hash compatibility): in both drafts a String32, its Str32 view and
\* the native str of the same content feed the same bytes to a Hasher.
C10_HashCompat ==
    pc \in {"live", "called"}
      => /\ impl = "string32"
              => /\ String32_hash(s) = str_hash(s.bytes)
                 /\ Str32_hash(deref(s)) = str_hash(s.bytes)
         /\ impl = "lib"
              => /\ lib_String32_hash(s) = str_hash(s.bytes)
                 /\ lib_Str32_hash(deref(s)) = str_hash(s.bytes)

\* C11 (footprint): on a target with 32-bit pointers and on one with 64-bit
\* pointers alike, a String32 takes exactly two machine words, and no more
\* than the three words of a native String.
C11_Footprint ==
    last.op = "size_of"
      => /\ last.ret.val = <<2 * last.idx>>
         /\ last.ret.val[1] <= SizeOf_String(last.idx)

\* The iterator after k calls of next().
RECURSIVE Advanced(_, _)
Advanced(self, k) ==
    IF k = 0 THEN self ELSE Advanced(CharIndices_next(self).self, k - 1)

\* C12 (character-index sequence): char_indices of a view yields one
\* (offset, char) pair per character, in content order; the first offset is
\* 0 and each next offset is the previous one plus the UTF-8 length of the
\* previous character, so the offsets are character boundaries below len;
\* after any number of next() calls, count() is the number of pairs that
\* are left and last() is the final pair (None when none is left).
CharIndexSequence(v) ==
    LET ps == char_indices(v)
        n == Len(ps)
    IN  /\ ps = Collected(CharIndices_from(v))
        /\ [i \in 1..n |-> ps[i][2]] = CharsFrom(v, 0)
        /\ n > 0 => ps[1][1] = 0
        /\ \A i \in 1..(n - 1) : ps[i + 1][1] = ps[i][1] + LenUtf8(ps[i][2])
        /\ \A i \in 1..n : ps[i][1] < Len(v) /\ ps[i][1] \in CharStarts(v)
        /\ \A k \in 0..n :
              LET it == Advanced(CharIndices_from(v), k)
              IN  /\ CharIndices_count(it) = n - k
                  /\ CharIndices_last(it) = IF k < n THEN ps[n] ELSE <<>>
                  /\ Collected(it) = SubSeq(ps, k + 1, n)

C12_CharIndices == pc \in {"live", "called"} => CharIndexSequence(deref(s))

C12_Witness ==
    /\ pc = "live"
    /\ Len(char_indices(deref(s))) = 2
    /\ char_indices(deref(s))[1] = <<0, 128578>>
    /\ char_indices(deref(s))[2] = <<4, 97>>
    /\ CharIndices_last(Advanced(CharIndices_from(deref(s)), 1)) = <<4, 97>>

\* C13 (boxed-view conversions terminate): a conversion of a Box<Str32>
\* into a String, Box<str>, Box<[u8]> or String32 does not recurse without
\* bound (from does not enter itself again, and the stack never runs out),
\* and what it returns holds exactly the bytes of the view.
C13_BoxedConversionsTerminate ==
    /\ pc = "converting" => last.idx <= 1
    /\ pc # "overflowed"
    /\ pc = "converted" => last.ret.val = last.old.bytes

\* The offset of the last call is a character boundary of the receiver,
\* the end included.
OnBoundary == last.idx \in CharStarts(last.old.bytes) \cup {Len(last.old.bytes)}

\* C14 (split_off): with an offset that is a character boundary at most
\* len, split_off(at) leaves the receiver with the bytes before the offset
\* and returns a String32 with the bytes from the offset on: the two
\* together are the old content and their lengths add up to its length.
C14_SplitOff ==
    (last.op = "split_off" /\ OnBoundary)
      => /\ ~last.panic
         /\ last.ret.tag = "String32"
         /\ s.bytes = SubSeq(last.old.bytes, 1, last.idx)
         /\ last.ret.val = SubSeq(last.old.bytes, last.idx + 1, Len(last.old.bytes))
         /\ s.bytes \o last.ret.val = last.old.bytes
         /\ Len(s.bytes) + Len(last.ret.val) = Len(last.old.bytes)

C14_Witness ==
    /\ last.op = "split_off"
    /\ last.idx > 0
    /\ last.idx < Len(last.old.bytes)
    /\ HasMultiByte(last.ret.val)
    /\ s.bytes \o last.ret.val = last.old.bytes
    /\ s.bytes # <<>>

\* The character of the receiver whose encoding starts at the offset of
\* the last call.
CharAtOffset ==
    Head(CharsFrom(SubSeq(last.old.bytes, last.idx + 1, Len(last.old.bytes)), 0))

\* C15 (remove): with an offset below len that is a character boundary,
\* remove(idx) returns the character whose encoding starts there and leaves
\* the content without exactly the bytes of that character: the length goes
\* down by its UTF-8 length and the other bytes keep their order.
C15_Remove ==
    (last.op = "remove" /\ last.idx \in CharStarts(last.old.bytes))
      => /\ ~last.panic
         /\ last.ret.tag = "char"
         /\ last.ret.val = <<CharAtOffset>>
         /\ s.bytes = SubSeq(last.old.bytes, 1, last.idx)
                        \o SubSeq(last.old.bytes,
                                  last.idx + LenUtf8(CharAtOffset) + 1,
                                  Len(last.old.bytes))
         /\ Len(s.bytes) = Len(last.old.bytes) - LenUtf8(CharAtOffset)

C15_Witness ==
    /\ last.op = "remove"
    /\ last.idx > 0
    /\ last.ret.tag = "char"
    /\ last.ret.val = <<128578>>
    /\ Len(s.bytes) = Len(last.old.bytes) - 4
    /\ s.bytes # <<>>

\* C16 (append): when the old length plus the length of the string fits in
\* u32, push_str(s), + s and += s leave the content equal to the old content
\* followed by s, with the sum as length; push(ch) does so for the UTF-8
\* encoding of ch.
C16_Append ==
    (last.op \in {"push_str", "add", "add_assign", "push"} /\ Grown <= U32_MAX)
      => /\ ~last.panic
         /\ s.bytes = last.old.bytes \o last.arg
         /\ Len(s.bytes) = Len(last.old.bytes) + Len(last.arg)
         /\ last.op = "add" => last.ret.val = last.old.bytes \o last.arg

C16_Witness ==
    /\ last.op = "add"
    /\ last.old.bytes # <<>>
    /\ HasMultiByte(last.arg)
    /\ s.bytes = last.old.bytes \o last.arg
    /\ Len(s.bytes) = U32_MAX

\* The last character of the receiver of the last call.
LastChar ==
    LET cs == CharsFrom(last.old.bytes, 0) IN cs[Len(cs)]

\* push(ch) and pop() of the draft in use, on a well-formed String32.
PushOf(self, ch) == IF impl = "lib" THEN lib_push(self, TRUE, ch) ELSE push(self, TRUE, ch)
PopOf(self) == IF impl = "lib" THEN lib_pop(self, TRUE) ELSE pop(self, TRUE)

\* C17 (pop): on a String32 that is not empty pop() returns Some of the
\* last character and takes exactly its bytes off the end; on an empty one
\* it returns None and leaves it empty; and so push(ch) followed by pop()
\* returns Some(ch) and gives back the content there was before.
C17_Pop ==
    /\ (last.op = "pop" /\ last.old.bytes # <<>>)
         => /\ ~last.panic
            /\ last.ret.tag = "some"
            /\ last.ret.val = <<LastChar>>
            /\ s.bytes = SubSeq(last.old.bytes, 1,
                                Len(last.old.bytes) - LenUtf8(LastChar))
    /\ (last.op = "pop" /\ last.old.bytes = <<>>)
         => (~last.panic /\ last.ret.tag = "none" /\ s.bytes = <<>>)
    /\ pc = "live"
         => \A ch \in ArgChars :
               Len(s.bytes) + LenUtf8(ch) <= U32_MAX
                 => LET pushed == PushOf(s, ch)
                        popped == PopOf(pushed.self)
                    IN  /\ ~pushed.panic /\ ~popped.panic
                        /\ popped.ret.tag = "some"
                        /\ popped.ret.val = <<ch>>
                        /\ popped.self.bytes = s.bytes

C17_Witness ==
    /\ last.op = "pop"
    /\ last.ret.tag = "some"
    /\ last.ret.val = <<128578>>
    /\ s.bytes # <<>>
    /\ Len(s.bytes) = Len(last.old.bytes) - 4

\* C18 (capacity kept by mutations that do not grow): String32::new() has
\* capacity 0, with_capacity(cap) has capacity at least cap, and a push,
\* push_str, insert or insert_str whose resulting length is within the
\* capacity leaves the capacity as it was.
C18_CapacityKept ==
    /\ last.op = "new" => capacity(s) = 0
    /\ last.op = "with_capacity" => capacity(s) >= last.old.cap
    /\ (/\ last.op \in {"push", "push_str", "insert", "insert_str"}
        /\ AtBoundary
        /\ Grown <= last.old.cap)
         => (~last.panic /\ capacity(s) = capacity(last.old))

C18_Witness ==
    /\ last.op = "insert"
    /\ last.old.bytes # <<>>
    /\ Grown < last.old.cap
    /\ ~last.panic
    /\ s.cap = last.old.cap
    /\ Len(s.bytes) = Grown

\* C19 (shrink_to_fit): after shrink_to_fit() the capacity equals the
\* length and the content is what it was.
C19_ShrinkToFit ==
    last.op = "shrink_to_fit"
      => /\ ~last.panic
         /\ capacity(s) = Str32_len(deref(s))
         /\ s.bytes = last.old.bytes

C19_Witness ==
    /\ last.op = "shrink_to_fit"
    /\ capacity(last.old) > Len(last.old.bytes)
    /\ HasMultiByte(last.old.bytes)
    /\ capacity(s) = Len(s.bytes)
    /\ s.bytes = last.old.bytes

\* The input is well-formed UTF-16: every high surrogate is followed by a
\* low one and every low surrogate follows a high one.
IsHigh(u) == 55296 <= u /\ u <= 56319
IsLow(u) == 56320 <= u /\ u <= 57343
Utf16WellFormed(v) ==
    \A i \in 1..Len(v) :
        /\ IsHigh(v[i]) => (i < Len(v) /\ IsLow(v[i + 1]))
        /\ IsLow(v[i]) => (i > 1 /\ IsHigh(v[i - 1]))

\* The UTF-8 of the decoded items from the k-th on, U+FFFD for each error.
RECURSIVE Utf8OfItems(_, _)
Utf8OfItems(items, k) ==
    IF k > Len(items) THEN <<>>
    ELSE EncodeUtf8(IF items[k] < 0 THEN 65533 ELSE items[k])
           \o Utf8OfItems(items, k + 1)

Utf16Text(v) == Utf8OfItems(DecodeUtf16From(v, 1), 1)

\* C21 (UTF-16 construction): from_utf16 returns the decoding error, and
\* neither panics nor reports an overflow, whenever the input is not
\* well-formed UTF-16, however long it is; on a well-formed input, and
\* from_utf16_lossy on every input, yields the String32 of the decoded
\* UTF-8 when that has at most u32::MAX bytes and panics when it has more.
C21_Utf16 ==
    /\ (last.op = "from_utf16" /\ ~Utf16WellFormed(last.old.bytes))
         => (~last.panic /\ last.ret.tag = "FromUtf16Error")
    /\ (\/ last.op = "from_utf16" /\ Utf16WellFormed(last.old.bytes)
        \/ last.op = "from_utf16_lossy")
         => IF Len(Utf16Text(last.old.bytes)) <= U32_MAX
            THEN /\ ~last.panic
                 /\ last.ret.tag = "Ok"
                 /\ last.ret.val = Utf16Text(last.old.bytes)
                 /\ s.bytes = Utf16Text(last.old.bytes)
            ELSE last.panic

C21_Witness ==
    /\ last.op = "from_utf16"
    /\ ~Utf16WellFormed(last.old.bytes)
    /\ Len(last.old.bytes) > U32_MAX
    /\ Len(Utf16Text(last.old.bytes)) > U32_MAX
    /\ last.ret.tag = "FromUtf16Error"

\* from_utf16_lossy met an unpaired surrogate next to a pair and the result
\* fits; elsewhere a well-formed input decoded to more than fits.
C21_WitnessLossy ==
    /\ last.op = "from_utf16_lossy"
    /\ ~Utf16WellFormed(last.old.bytes)
    /\ HasMultiByte(s.bytes)
    /\ Len(s.bytes) = U32_MAX
    /\ last.ret.tag = "Ok"

\* The calls that are compared with the native String.
Mirrored ==
    {"push", "push_str", "pop", "insert", "insert_str", "remove", "truncate",
     "split_off", "shrink_to_fit", "clear"}

\* The same call on a native String st: a pushed or inserted character is
\* given by its encoding, as the calls are recorded.
Native(op, st, idx, arg) ==
    CASE op \in {"push", "push_str"} -> String_push_str(st, arg)
      [] op = "pop" -> String_pop(st)
      [] op \in {"insert", "insert_str"} -> String_insert_str(st, idx, arg)
      [] op = "remove" -> String_remove(st, idx)
      [] op = "truncate" -> String_truncate(st, idx)
      [] op = "split_off" -> String_split_off(st, idx)
      [] op = "shrink_to_fit" -> String_shrink_to_fit(st)
      [] OTHER -> Done(Buf(<<>>, st.cap), Unit)

\* The native String that went side by side with the String32 up to the
\* last call, and what the call made of it.
Twin == Buf(last.old.bytes, Len(last.old.bytes))
TwinCall == Native(last.op, Twin, last.idx, last.arg)

\* C22 (refinement of the native String): a mirrored call on a String32 and
\* on a native String of equal content aborts on the String32 exactly when
\* it aborts on the String or leaves the String longer than u32::MAX; when
\* it returns, the two contents are equal and so are the values returned.
C22_Refinement ==
    last.op \in Mirrored
      => /\ last.panic <=> (TwinCall.panic \/ Len(TwinCall.str.bytes) > U32_MAX)
         /\ ~last.panic
              => /\ s.bytes = TwinCall.str.bytes
                 /\ last.ret.val = TwinCall.ret.val
                 /\ (last.ret.tag = "none") <=> (TwinCall.ret.tag = "none")

C22_Witness ==
    /\ last.op = "insert_str"
    /\ impl = "lib"
    /\ last.panic
    /\ ~TwinCall.panic
    /\ HasMultiByte(TwinCall.str.bytes)
    /\ Len(TwinCall.str.bytes) > U32_MAX

\* A call that returns a value, on both sides the same.
C22_WitnessReturns ==
    /\ last.op = "split_off"
    /\ ~last.panic
    /\ HasMultiByte(last.ret.val)
    /\ s.bytes # <<>>
    /\ s.bytes \o last.ret.val = Twin.bytes
    /\ last.ret.val = TwinCall.ret.val

\* The mutations that work on a String taken out of the receiver.
ThroughString ==
    {"push", "push_str", "add", "add_assign", "pop", "insert", "insert_str",
     "remove", "truncate", "split_off", "shrink_to_fit"}

\* Why the last call could abort: its offset is past the end, or inside a
\* character, or the content would have outgrown u32::MAX.
OffsetOutOfRange == last.idx > Len(last.old.bytes)
OffsetInsideChar == InsideChar(last.old.bytes, last.idx)
ResultTooLong == Len(last.old.bytes) + Len(last.arg) > U32_MAX

\* C23 (state after an aborted mutation): when a mutation that goes through
\* a String aborts, the String32 seen afterwards is what mem::take left:
\* empty, with capacity 0; neither the content it had nor part of the new.
C23_AfterAbort ==
    (last.op \in ThroughString /\ last.panic)
      => /\ s.bytes = <<>>
         /\ capacity(s) = 0
         /\ s = Vec32_new

C23_Witness ==
    /\ last.op = "insert"
    /\ last.panic
    /\ OffsetInsideChar
    /\ ~ResultTooLong
    /\ last.old.bytes # <<>>
    /\ capacity(last.old) > 0
    /\ s = Vec32_new

\* The two other causes: an offset past the end, a result that is too long.
C23_WitnessOutOfRange ==
    /\ last.op = "split_off"
    /\ last.panic
    /\ OffsetOutOfRange
    /\ last.old.bytes # <<>>
    /\ s = Vec32_new

C23_WitnessTooLong ==
    /\ last.op = "push"
    /\ last.panic
    /\ ResultTooLong
    /\ Len(last.old.bytes) = U32_MAX
    /\ s = Vec32_new

\* The views the safe API hands out: the dereferenced String32 and a view
\* converted from a native slice, and what the sub-view methods make of a
\* view v (<<-1>> stands for a sub-view whose unwrap panicked).
RootViews ==
    {deref(s)} \cup (IF last.ret.tag = "view" THEN {last.ret.val} ELSE {})

SubViews(v) ==
    DerivedViews(v)
      \cup {split_ascii_whitespace(v)[i] : i \in DOMAIN split_ascii_whitespace(v)}
      \cup UNION {{split_at(v, mid).ret.val, split_at(v, mid).ret.val2} :
                    mid \in {m \in 0..Len(v) : ~split_at(v, m).panic}}

\* The view is within the 32-bit width and no narrowing unwrap on it fails.
WithinWidth(w) ==
    /\ w # <<-1>>
    /\ Len(w) <= U32_MAX
    /\ Str32_len(w) >= 0
    /\ \A k \in DOMAIN char_indices(w) : char_indices(w)[k][1] >= 0

\* The width invariant alone: every view handed out, and every sub-view of
\* it, is within the width.
ViewsWithinWidth ==
    \A v \in RootViews : \A w \in SubViews(v) : WithinWidth(w)

\* C24 (view width invariant): every Str32 the safe API hands out (converted
\* from a native slice, dereferenced from a String32, or a sub-view of one
\* of these) has at most u32::MAX bytes, so no narrowing unwrap of len(),
\* of char_indices or of a sub-view constructor fails; and the conversion
\* from &str fails, with TryFromStrError, exactly when the slice is longer
\* than u32::MAX.
C24_ViewWidth ==
    /\ ViewsWithinWidth
    /\ last.op = "Str32_try_from"
         => /\ ~last.panic
            /\ (last.ret.tag = "TryFromStrError")
                 <=> (Len(last.old.bytes) > U32_MAX)
            /\ (last.ret.tag = "view") <=> (Len(last.old.bytes) <= U32_MAX)

\* A view of a native slice of exactly u32::MAX bytes, with sub-views.
ViewsWithinWidthWitness ==
    /\ last.op = "Str32_try_from"
    /\ last.ret.tag = "view"
    /\ Len(last.ret.val) = U32_MAX
    /\ HasMultiByte(last.ret.val)
    /\ Cardinality(SubViews(last.ret.val)) > 3

=============================================================================
